---- MODULE Spec2Model ----
(***************************************************************************)
(* Model of scripts/cpython/resolve_packaged_cpython_runtime.py: the       *)
(* runtime acquisition pipeline (digest resolution, download with retries, *)
(* sha256 verification, extraction, install, probes).                      *)
(*                                                                         *)
(* Strings whose characters matter (digests, environment values) are       *)
(* sequences of one-character strings.  Archive bytes are sequences of     *)
(* small integers; every byte of a well-formed archive encodes one tar     *)
(* member, byte 0 is a corrupt record.  sha256 is idealised as an          *)
(* injective encoding of the bytes into lowercase hex.                     *)
(***************************************************************************)
EXTENDS Integers, Sequences, FiniteSets, TLC

----------------------------------------------------------------------------
(* Bounds of the model *)

\* longest assets list of a metadata response explored by SpecResolve
MaxAssets == 2
\* number of successive pipeline runs on the same runner directory
MaxRuns == 2
\* the transport of a run fails on its first 0..MaxFail download attempts
MaxFail == 3
\* largest retry budget handed to download_with_retries in SpecDownload
MaxBudget == 3

\* retries: int = 3, the default budget of both retry loops
DefaultRetries == 3

----------------------------------------------------------------------------
(* str methods *)

LowerChar(c) ==
    CASE c = "A" -> "a" [] c = "B" -> "b" [] c = "C" -> "c"
      [] c = "D" -> "d" [] c = "E" -> "e" [] c = "F" -> "f"
      [] c = "S" -> "s" [] c = "H" -> "h"
      [] OTHER -> c

\* str.lower()
lower(s) == [i \in 1..Len(s) |-> LowerChar(s[i])]

\* str.startswith(p)
startswith(s, p) == Len(s) >= Len(p) /\ SubSeq(s, 1, Len(p)) = p

\* s.split(":", 1)[1] : everything after the first colon (s holds one)
AfterFirstColon(s) ==
    LET i == CHOOSE k \in 1..Len(s) :
                 s[k] = ":" /\ \A j \in 1..(k - 1) : s[j] # ":"
    IN  SubSeq(s, i + 1, Len(s))

IsSpace(c) == c \in {" ", "\n"}

\* str.strip()
strip(s) ==
    LET keep == {i \in 1..Len(s) : ~IsSpace(s[i])}
    IN  IF keep = {} THEN <<>>
        ELSE LET lo == CHOOSE i \in keep : \A j \in keep : i <= j
                 hi == CHOOSE i \in keep : \A j \in keep : i >= j
             IN  SubSeq(s, lo, hi)

Sha256Prefix == <<"s", "h", "a", "2", "5", "6", ":">>

----------------------------------------------------------------------------
(* Archive bytes, sha256, tar members *)

Bytes == 0..6

HexDigit(b) ==
    CASE b = 0 -> "0" [] b = 1 -> "a" [] b = 2 -> "b" [] b = 3 -> "c"
      [] b = 4 -> "d" [] b = 5 -> "e" [] b = 6 -> "f"

UpperChar(c) ==
    CASE c = "a" -> "A" [] c = "b" -> "B" [] c = "c" -> "C"
      [] c = "d" -> "D" [] c = "e" -> "E" [] c = "f" -> "F"
      [] OTHER -> c

upper(s) == [i \in 1..Len(s) |-> UpperChar(s[i])]

\* hashlib.sha256(...).hexdigest(): lowercase hex, injective on the payloads
Sha256Hex(bytes) == [i \in 1..Len(bytes) |-> HexDigit(bytes[i])]

\* the tar member a byte encodes: top-level entry and path below it
Member(b) ==
    CASE b = 1 -> [top |-> "python", rel |-> "bin/python3"]
      [] b = 2 -> [top |-> "python", rel |-> "bin/python"]
      [] b = 3 -> [top |-> "python", rel |-> "python.exe"]
      [] b = 4 -> [top |-> "python", rel |-> "Scripts/python.exe"]
      [] b = 5 -> [top |-> "python", rel |-> "lib/libpython.so"]
      [] b = 6 -> [top |-> "README", rel |-> ""]

NoFile == [exists |-> FALSE, bytes |-> <<>>]
NoDir == [exists |-> FALSE, files |-> {}]
EmptyDir == [exists |-> TRUE, files |-> {}]

----------------------------------------------------------------------------
(* JSON values of the release metadata response *)

AssetName == "asset"
OtherName == "other"

NotStr == [isStr |-> FALSE, s |-> <<>>]
Str(s) == [isStr |-> TRUE, s |-> s]

Dict(name, digest) == [isDict |-> TRUE, name |-> name, digest |-> digest]
NotDict == [isDict |-> FALSE, name |-> "", digest |-> NotStr]

NotObject == [isObject |-> FALSE, isList |-> FALSE, items |-> <<>>]
NoAssetsList == [isObject |-> TRUE, isList |-> FALSE, items |-> <<>>]
Release(items) == [isObject |-> TRUE, isList |-> TRUE, items |-> items]


----------------------------------------------------------------------------
(* Messages of the RuntimeError raised at each failure site *)

E_RunnerTemp == "RUNNER_TEMP_DIR or RUNNER_TEMP must be set."
E_MissingEnv == "Missing required environment variable"
E_MetaFetch == "Failed to fetch release metadata"
E_Attribute == "AttributeError: no attribute get"
E_NoAssets == "Invalid GitHub release metadata: missing assets list."
E_NotFound == "Cannot find expected python-build-standalone asset in release"
E_NoDigest == "Release metadata does not provide sha256 digest for asset"
E_Download == "Failed to download python-build-standalone asset"
E_Mismatch == "Downloaded runtime archive sha256 mismatch"
E_Tar == "tarfile.ReadError"
E_Layout == "Invalid python-build-standalone archive layout: missing top-level python/ directory."
E_FileExists == "FileExistsError"
E_NoBinary == "Cannot find verification runtime binary"
E_ProbeVersion == "Packaged runtime version probe failed"
E_ProbeSsl == "Packaged runtime ssl probe failed"

----------------------------------------------------------------------------
(* _resolve_expected_sha256, after the metadata response was read *)

\* next((item for item in assets if isinstance(item, dict)
\*       and item.get("name") == asset_name), None); 0 stands for None
RECURSIVE NextMatch(_, _, _)
NextMatch(items, asset_name, i) ==
    IF i > Len(items) THEN 0
    ELSE IF items[i].isDict /\ items[i].name = asset_name THEN i
    ELSE NextMatch(items, asset_name, i + 1)

\* a variant that keeps the last matching descriptor instead of the first
LastMatch(items, asset_name) ==
    LET hits == {i \in 1..Len(items) :
                    items[i].isDict /\ items[i].name = asset_name}
    IN  IF hits = {} THEN 0 ELSE CHOOSE i \in hits : \A j \in hits : j <= i

matched_asset(items, asset_name) == NextMatch(items, asset_name, 1)

\* isinstance(digest, str) and digest.startswith("sha256:")
digest_usable(digest) == digest.isStr /\ startswith(digest.s, Sha256Prefix)

\* a variant that forgets .lower()
digest_hex_as_published(s) == AfterFirstColon(s)

\* digest.split(":", 1)[1].lower()
digest_hex(s) == lower(AfterFirstColon(s))

Return(v) == [err |-> "", value |-> v]
Raise(e) == [err |-> e, value |-> <<>>]

resolve_expected_sha256(release_data, asset_name) ==
    IF ~release_data.isObject THEN Raise(E_Attribute)
    ELSE IF ~release_data.isList THEN Raise(E_NoAssets)
    ELSE LET m == matched_asset(release_data.items, asset_name)
         IN  IF m = 0 THEN Raise(E_NotFound)
             ELSE IF ~digest_usable(release_data.items[m].digest)
                  THEN Raise(E_NoDigest)
                  ELSE Return(digest_hex(release_data.items[m].digest.s))

----------------------------------------------------------------------------
(* Environment of main *)

EnvNames == {"RUNNER_TEMP_DIR", "RUNNER_TEMP",
             "PYTHON_BUILD_STANDALONE_RELEASE",
             "PYTHON_BUILD_STANDALONE_VERSION",
             "PYTHON_BUILD_STANDALONE_TARGET"}
RequiredEnv == {"PYTHON_BUILD_STANDALONE_RELEASE",
                "PYTHON_BUILD_STANDALONE_VERSION",
                "PYTHON_BUILD_STANDALONE_TARGET"}

Unset == [set |-> FALSE, val |-> <<>>]
Val(s) == [set |-> TRUE, val |-> s]
GoodVal == Val(<<"x">>)
EnvValues == {Unset, Val(<<>>), Val(<<" ">>), GoodVal}

\* environments in which at most one variable is unset, empty or blank, and
\* the one in which neither runner directory variable is set
Envs == {e \in [EnvNames -> EnvValues] :
            \/ Cardinality({n \in EnvNames : e[n] # GoodVal}) <= 1
            \/ /\ e["RUNNER_TEMP_DIR"] = Unset /\ e["RUNNER_TEMP"] = Unset
               /\ \A n \in RequiredEnv : e[n] = GoodVal}

\* os.environ.get(name) as a truth value
Truthy(v) == v.set /\ v.val # <<>>

\* os.environ.get("RUNNER_TEMP_DIR") or os.environ.get("RUNNER_TEMP")
runner_temp_set(env) == Truthy(env["RUNNER_TEMP_DIR"]) \/ Truthy(env["RUNNER_TEMP"])

\* _require_env: (os.environ.get(name) or "").strip() is non-empty
require_env_ok(env, name) ==
    strip(IF Truthy(env[name]) THEN env[name].val ELSE <<>>) # <<>>

----------------------------------------------------------------------------
(* Filesystem operations *)

\* a variant that leaves an existing tree in place
keep_tree(d) == d

\* if path.exists(): shutil.rmtree(path)
rmtree_if_exists(d) == IF d.exists THEN NoDir ELSE d

\* a variant that creates nothing
skip_mkdir(d) == d

\* path.mkdir(parents=True, exist_ok=True)
mkdir_exist_ok(d) == IF d.exists THEN d ELSE EmptyDir

\* a variant that waits the same time after every failure
backoff_constant(k) == 2

\* time.sleep(attempt * 2)
backoff(k) == k * 2

\* a variant that opens the file in append mode
write_ab(file, data) == [exists |-> TRUE, bytes |-> file.bytes \o data]

\* output_path.open("wb") followed by writing data: truncates, then writes
write_wb(file, data) == [exists |-> TRUE, bytes |-> data]

\* _calculate_sha256(file_path)
calculate_sha256(file) == Sha256Hex(file.bytes)

\* a variant whose comparison never reports a mismatch
never_mismatch(actual, expected) == FALSE

\* actual_sha256 != expected_sha256 guards the raise
sha256_mismatch(actual, expected) == actual # expected

\* index of the first corrupt record of the archive, 0 if it is well formed
FirstCorrupt(bytes) ==
    IF \E i \in 1..Len(bytes) : bytes[i] = 0
    THEN CHOOSE i \in 1..Len(bytes) :
             bytes[i] = 0 /\ \A j \in 1..(i - 1) : bytes[j] # 0
    ELSE 0

\* archive.extractall(extract_root): the members written before any error
extractall(dir, bytes) ==
    LET c == FirstCorrupt(bytes)
        n == IF c = 0 THEN Len(bytes) ELSE c - 1
    IN  [exists |-> TRUE,
         files |-> dir.files \cup {Member(bytes[i]) : i \in 1..n}]

\* (extract_root / "python").is_dir()
is_dir_python(dir) == dir.exists /\ \E m \in dir.files : m.top = "python"

\* the tree shutil.copytree creates at the destination
copytree(dir) ==
    [exists |-> TRUE,
     files |-> {m.rel : m \in {x \in dir.files : x.top = "python"}}]

\* a variant with the candidates in the opposite order
candidates_reversed(plat) ==
    IF plat = "win32" THEN <<"Scripts/python.exe", "python.exe">>
    ELSE <<"bin/python", "bin/python3">>

\* _resolve_runtime_python: ordered candidates of the platform
candidates(plat) ==
    IF plat = "win32" THEN <<"python.exe", "Scripts/python.exe">>
    ELSE <<"bin/python3", "bin/python">>

\* next((c for c in candidates if c.is_file()), None); "" stands for None
RECURSIVE NextFile(_, _, _)
NextFile(cands, root, i) ==
    IF i > Len(cands) THEN ""
    ELSE IF root.exists /\ cands[i] \in root.files THEN cands[i]
    ELSE NextFile(cands, root, i + 1)

\* a variant that takes the first candidate without looking for it
first_candidate(plat, root) == candidates(plat)[1]

resolve_runtime_python(plat, root) == NextFile(candidates(plat), root, 1)


----------------------------------------------------------------------------
(* State *)

VARIABLES
    platform,        \* sys.platform
    remoteMeta,      \* JSON the release metadata endpoint serves
    remoteArchive,   \* bytes the download endpoint serves
    probeExit,       \* exit code of the packaged interpreter per probe
    target,          \* runner_temp / "astrbot-cpython-runtime"
    staging,         \* runner_temp / "astrbot-cpython-runtime-extract"
    archiveFile,     \* runner_temp / asset_name
    pc,              \* position of main
    run,             \* number of the current run of the script
    log,             \* stages the current run has executed, in order
    attempt,         \* loop variable of the running retry loop
    retries,         \* budget of _download_with_retries
    failFirst,       \* the download transport fails on attempts 1..failFirst
    metaOutcomes,    \* failures of the metadata attempts of this run
    dlAttempts,      \* urlopen calls made by _download_with_retries
    sleeps,          \* durations handed to time.sleep in this run
    cause,           \* attempt whose exception the raised error chains (0: None)
    expected_sha256,
    actual_sha256,
    runtime_python,
    error,           \* message of the exception that ended the run
    printed,         \* lines written to stdout
    prev             \* how the previous run ended

\* State of the release scripts under scripts/ci and desktop-tauri/scripts
VARIABLES
    script,          \* the script the process runs
    args,            \* its command line
    tree,            \* the filesystem object its path argument names
    cipc,            \* position of its main
    artifacts,       \* updater_artifacts, in scan order
    manifest,        \* the manifest built by generate_manifest
    outFile,         \* content of the --output file
    exitCode,        \* exit status of the process (-1 while it runs)
    stdout,          \* lines printed to stdout
    stderr,          \* lines printed to stderr
    filename,        \* argument of extract_platform_info
    info,            \* its result
    pyproject        \* the pyproject.toml the version scripts read

ciVars == <<script, args, tree, cipc, artifacts, manifest, outFile, exitCode,
            stdout, stderr, filename, info, pyproject>>

NoArgs ==
    [argc |-> 0, ok |-> FALSE, version |-> "", release_tag |-> "",
     repository |-> "", strict_version_match |-> FALSE]
NoTree == [kind |-> "missing", files |-> {}]
NoManifest == [built |-> FALSE, version |-> "", notes |-> <<>>, platforms |-> <<>>]
NoInfo == [matched |-> FALSE, os |-> "", arch |-> ""]
NoPyproject ==
    [readable |-> TRUE, parser |-> TRUE, parses |-> TRUE,
     version |-> NotStr, requires |-> NotStr]

\* no release script is running
CiIdle ==
    /\ script = "none"
    /\ args = NoArgs
    /\ tree = NoTree
    /\ cipc = "idle"
    /\ artifacts = <<>>
    /\ manifest = NoManifest
    /\ outFile = NoManifest
    /\ exitCode = -1
    /\ stdout = <<>>
    /\ stderr = <<>>
    /\ filename = <<>>
    /\ info = NoInfo
    /\ pyproject = NoPyproject

\* State of the metadata request
VARIABLES
    tokenEnv,        \* the token variables of the environment
    request          \* the request built by the last metadata attempt

reqVars == <<tokenEnv, request>>

TokenNames == <<"GITHUB_TOKEN", "GH_TOKEN", "ASTRBOT_GITHUB_TOKEN">>

NoRequest == [built |-> FALSE, headers |-> <<>>]

\* the first of the named variables whose value is truthy, "" when none is:
\* os.environ.get(a) or os.environ.get(b) or ... or ""
RECURSIVE FirstTruthy(_, _, _)
FirstTruthy(env, names, i) ==
    IF i > Len(names) THEN <<>>
    ELSE IF Truthy(env[names[i]]) THEN env[names[i]].val
    ELSE FirstTruthy(env, names, i + 1)

\* lines 51-56
github_token(env) == strip(FirstTruthy(env, TokenNames, 1))

\* _build_request, lines 45-58
build_request(env) ==
    LET base == <<[key |-> "Accept", val |-> <<"application/vnd.github+json">>],
                  [key |-> "User-Agent", val |-> <<"astrbot-desktop-tauri">>]>>
        token == github_token(env)
    IN  [built |-> TRUE,
         headers |-> IF token # <<>>
                     THEN Append(base, [key |-> "Authorization",
                                        val |-> <<"Bearer ">> \o token])
                     ELSE base]

\* no token variable is set and no request has been built
ReqIdle ==
    /\ tokenEnv = [n \in {"GITHUB_TOKEN", "GH_TOKEN", "ASTRBOT_GITHUB_TOKEN"} |-> Unset]
    /\ request = NoRequest

envVars == <<platform, remoteMeta, remoteArchive, probeExit>>
fsVars == <<target, staging, archiveFile>>
loopVars == <<attempt, retries, failFirst, metaOutcomes, dlAttempts, sleeps, cause>>
localVars == <<expected_sha256, actual_sha256, runtime_python, printed>>
pipeVars ==
    <<envVars, reqVars, fsVars, loopVars, localVars, pc, run, log, error, prev>>
vars == <<pipeVars, ciVars>>

Probes == {"version", "ssl"}

\* archives the download endpoint may serve
Archives ==
    {<<1, 5>>, <<2>>, <<2, 1>>, <<3>>, <<4, 3>>, <<5>>, <<1, 6>>, <<6>>,
     <<1, 0>>, <<>>}

\* metadata responses published for an archive
MetasFor(a) ==
    LET h == Sha256Hex(a)
    IN  {Release(<<Dict(AssetName, Str(Sha256Prefix \o h))>>),
         Release(<<Dict(OtherName, Str(Sha256Prefix \o <<"f", "f">>)),
                   Dict(AssetName, Str(Sha256Prefix \o upper(h)))>>),
         Release(<<Dict(AssetName, Str(Sha256Prefix \o <<"a", "a", "a">>))>>),
         Release(<<Dict(AssetName, NotStr)>>),
         Release(<<Dict(OtherName, Str(Sha256Prefix \o h))>>),
         NoAssetsList}

NoPrev ==
    [outcome |-> "none", error |-> "", target |-> NoDir, staging |-> NoDir,
     archiveFile |-> NoFile]

Locals0 ==
    /\ pc = "start"
    /\ log = <<>>
    /\ attempt = 0
    /\ retries = DefaultRetries
    /\ failFirst = 0
    /\ metaOutcomes = <<>>
    /\ dlAttempts = 0
    /\ sleeps = <<>>
    /\ cause = 0
    /\ expected_sha256 = <<>>
    /\ actual_sha256 = <<>>
    /\ runtime_python = ""
    /\ error = ""
    /\ printed = <<>>

Init ==
    /\ CiIdle
    /\ ReqIdle
    /\ platform \in {"win32", "linux"}
    /\ remoteArchive \in Archives
    /\ remoteMeta \in MetasFor(remoteArchive)
    /\ probeExit \in [Probes -> {0, 1}]
    /\ target = NoDir
    /\ staging = NoDir
    /\ archiveFile = NoFile
    /\ run = 1
    /\ prev = NoPrev
    /\ Locals0

----------------------------------------------------------------------------
(* Steps of main *)

\* an exception propagates out of main
Fail(msg) == pc' = "failed" /\ error' = msg

\* a variant that removes the target directory before the environment is read
ReadConfigAfterClean ==
    /\ pc = "start"
    /\ log' = Append(log, "config")
    /\ target' = rmtree_if_exists(target)
    /\ \E env \in Envs :
          IF ~runner_temp_set(env) THEN Fail(E_RunnerTemp) /\ attempt' = attempt
          ELSE IF \E n \in RequiredEnv : ~require_env_ok(env, n)
               THEN Fail(E_MissingEnv) /\ attempt' = attempt
               ELSE pc' = "metadata" /\ attempt' = 1 /\ error' = error
    /\ UNCHANGED <<ciVars, reqVars, envVars, staging, archiveFile, localVars>>
    /\ UNCHANGED <<run, prev>>
    /\ UNCHANGED <<retries, failFirst, metaOutcomes, dlAttempts, sleeps, cause>>

\* lines 143-150: the environment is read
ReadConfig ==
    /\ pc = "start"
    /\ log' = Append(log, "config")
    /\ \E env \in Envs :
          IF ~runner_temp_set(env) THEN Fail(E_RunnerTemp) /\ attempt' = attempt
          ELSE IF \E n \in RequiredEnv : ~require_env_ok(env, n)
               THEN Fail(E_MissingEnv) /\ attempt' = attempt
               ELSE pc' = "metadata" /\ attempt' = 1 /\ error' = error
    /\ UNCHANGED <<ciVars, reqVars, envVars, fsVars, localVars, run, prev>>
    /\ UNCHANGED <<retries, failFirst, metaOutcomes, dlAttempts, sleeps, cause>>

\* lines 64-67 and 83-105: the response is read and parsed, the digest resolved
FetchMetadataOk ==
    /\ pc = "metadata"
    /\ attempt <= DefaultRetries
    /\ log' = Append(log, "resolve")
    /\ LET r == resolve_expected_sha256(remoteMeta, AssetName)
       IN  IF r.err # ""
           THEN Fail(r.err) /\ expected_sha256' = expected_sha256
           ELSE pc' = "clean" /\ expected_sha256' = r.value /\ error' = error
    /\ request' = build_request(tokenEnv)
    /\ UNCHANGED <<ciVars, tokenEnv, envVars, fsVars, loopVars, run, prev>>
    /\ UNCHANGED <<actual_sha256, runtime_python, printed>>

\* lines 68-72: urlopen or json.load raised
FetchMetadataFail ==
    /\ pc = "metadata"
    /\ attempt <= DefaultRetries
    /\ \E kind \in {"network", "unparseable"} :
          metaOutcomes' = Append(metaOutcomes, kind)
    /\ cause' = attempt
    /\ IF attempt >= DefaultRetries
       THEN Fail(E_MetaFetch) /\ UNCHANGED <<sleeps, attempt>>
       ELSE /\ sleeps' = Append(sleeps, backoff(attempt))
            /\ attempt' = attempt + 1
            /\ UNCHANGED <<pc, error>>
    /\ request' = build_request(tokenEnv)
    /\ UNCHANGED <<ciVars, tokenEnv, envVars, fsVars, localVars, run, prev, log>>
    /\ UNCHANGED <<retries, failFirst, dlAttempts>>

\* lines 163-167: target and staging are removed, staging is created
CleanDirs ==
    /\ pc = "clean"
    /\ log' = Append(log, "clean")
    /\ target' = rmtree_if_exists(target)
    /\ staging' = mkdir_exist_ok(rmtree_if_exists(staging))
    /\ pc' = "download"
    /\ attempt' = 1
    /\ \E f \in 0..MaxFail : failFirst' = f
    /\ UNCHANGED <<ciVars, reqVars, envVars, archiveFile, localVars, run, prev, error>>
    /\ UNCHANGED <<retries, metaOutcomes, dlAttempts, sleeps, cause>>

\* lines 29-33: an attempt of _download_with_retries that succeeds
DownloadOk ==
    /\ pc = "download"
    /\ attempt <= retries
    /\ attempt > failFirst
    /\ dlAttempts' = dlAttempts + 1
    /\ archiveFile' = write_wb(archiveFile, remoteArchive)
    /\ pc' = "verify"
    /\ log' = Append(log, "download")
    /\ UNCHANGED <<ciVars, reqVars, envVars, target, staging, localVars, run, prev, error>>
    /\ UNCHANGED <<attempt, retries, failFirst, metaOutcomes, sleeps, cause>>

\* lines 34-40: an attempt that raises, before the file is opened or while
\* the body is copied
DownloadFail ==
    /\ pc = "download"
    /\ attempt <= retries
    /\ attempt <= failFirst
    /\ dlAttempts' = dlAttempts + 1
    /\ \/ archiveFile' = archiveFile
       \/ \E n \in 0..(Len(remoteArchive) - 1) :
             archiveFile' = write_wb(archiveFile, SubSeq(remoteArchive, 1, n))
    /\ cause' = attempt
    /\ IF attempt >= retries
       THEN Fail(E_Download) /\ UNCHANGED <<sleeps, attempt>>
       ELSE /\ sleeps' = Append(sleeps, backoff(attempt))
            /\ attempt' = attempt + 1
            /\ UNCHANGED <<pc, error>>
    /\ UNCHANGED <<ciVars, reqVars, envVars, target, staging, localVars, run, prev, log>>
    /\ UNCHANGED <<retries, failFirst, metaOutcomes>>

\* line 42: the loop ended without an attempt (an empty range)
DownloadNoAttempt ==
    /\ pc = "download"
    /\ attempt > retries
    /\ Fail(E_Download)
    /\ UNCHANGED <<ciVars, reqVars, envVars, fsVars, loopVars, localVars, run, prev, log>>

\* lines 170-175: the digest of the file is recomputed and compared
VerifyDigest ==
    /\ pc = "verify"
    /\ log' = Append(log, "verify")
    /\ actual_sha256' = calculate_sha256(archiveFile)
    /\ IF sha256_mismatch(actual_sha256', expected_sha256)
       THEN Fail(E_Mismatch)
       ELSE pc' = "extract" /\ error' = error
    /\ UNCHANGED <<ciVars, reqVars, envVars, fsVars, loopVars, run, prev>>
    /\ UNCHANGED <<expected_sha256, runtime_python, printed>>

\* lines 177-178: the archive is extracted into the staging directory
Extract ==
    /\ pc = "extract"
    /\ log' = Append(log, "extract")
    /\ staging' = extractall(staging, archiveFile.bytes)
    /\ IF FirstCorrupt(archiveFile.bytes) # 0
       THEN Fail(E_Tar)
       ELSE pc' = "layout" /\ error' = error
    /\ UNCHANGED <<ciVars, reqVars, envVars, target, archiveFile, loopVars, localVars, run, prev>>

\* lines 180-184: the extracted layout is validated
CheckLayout ==
    /\ pc = "layout"
    /\ log' = Append(log, "layout")
    /\ IF ~is_dir_python(staging)
       THEN Fail(E_Layout)
       ELSE pc' = "copy" /\ error' = error
    /\ UNCHANGED <<ciVars, reqVars, envVars, fsVars, loopVars, localVars, run, prev>>

\* line 186: shutil.copytree(source_runtime_root, target_runtime_root)
Install ==
    /\ pc = "copy"
    /\ log' = Append(log, "install")
    /\ IF target.exists
       THEN Fail(E_FileExists) /\ target' = target
       ELSE target' = copytree(staging) /\ pc' = "locate" /\ error' = error
    /\ UNCHANGED <<ciVars, reqVars, envVars, staging, archiveFile, loopVars, localVars, run, prev>>

\* line 188: _resolve_runtime_python(target_runtime_root)
LocateBinary ==
    /\ pc = "locate"
    /\ log' = Append(log, "locate")
    /\ LET found == resolve_runtime_python(platform, target)
       IN  IF found = ""
           THEN Fail(E_NoBinary) /\ runtime_python' = runtime_python
           ELSE runtime_python' = found /\ pc' = "probe_version" /\ error' = error
    /\ UNCHANGED <<ciVars, reqVars, envVars, fsVars, loopVars, run, prev>>
    /\ UNCHANGED <<expected_sha256, actual_sha256, printed>>

\* line 189: _run_probe(runtime_python, ["-V"], "version")
ProbeVersion ==
    /\ pc = "probe_version"
    /\ log' = Append(log, "probe_version")
    /\ IF probeExit["version"] # 0
       THEN Fail(E_ProbeVersion)
       ELSE pc' = "probe_ssl" /\ error' = error
    /\ UNCHANGED <<ciVars, reqVars, envVars, fsVars, loopVars, localVars, run, prev>>

\* line 190: _run_probe(runtime_python, ["-c", "import ssl"], "ssl")
ProbeSsl ==
    /\ pc = "probe_ssl"
    /\ log' = Append(log, "probe_ssl")
    /\ IF probeExit["ssl"] # 0
       THEN Fail(E_ProbeSsl)
       ELSE pc' = "print" /\ error' = error
    /\ UNCHANGED <<ciVars, reqVars, envVars, fsVars, loopVars, localVars, run, prev>>

\* lines 192-193: the result is printed and main returns
PrintResult ==
    /\ pc = "print"
    /\ log' = Append(log, "print")
    /\ printed' = <<"ASTRBOT_DESKTOP_CPYTHON_HOME", "ASTRBOT_DESKTOP_CPYTHON_ASSET">>
    /\ pc' = "done"
    /\ UNCHANGED <<ciVars, reqVars, envVars, fsVars, loopVars, run, prev, error>>
    /\ UNCHANGED <<expected_sha256, actual_sha256, runtime_python>>

Terminated == pc \in {"done", "failed"}

\* lines 196-197: the script is started again on the same runner directory
NextRun ==
    /\ Terminated
    /\ run < MaxRuns
    /\ run' = run + 1
    /\ prev' = [outcome |-> pc, error |-> error, target |-> target,
                staging |-> staging, archiveFile |-> archiveFile]
    /\ pc' = "start"
    /\ log' = <<>>
    /\ attempt' = 0
    /\ retries' = DefaultRetries
    /\ failFirst' = 0
    /\ metaOutcomes' = <<>>
    /\ dlAttempts' = 0
    /\ sleeps' = <<>>
    /\ cause' = 0
    /\ expected_sha256' = <<>>
    /\ actual_sha256' = <<>>
    /\ runtime_python' = ""
    /\ error' = ""
    /\ printed' = <<>>
    /\ request' = NoRequest
    /\ UNCHANGED <<ciVars, tokenEnv, envVars, fsVars>>

Next ==
    \/ ReadConfig
    \/ FetchMetadataOk
    \/ FetchMetadataFail
    \/ CleanDirs
    \/ DownloadOk
    \/ DownloadFail
    \/ VerifyDigest
    \/ Extract
    \/ CheckLayout
    \/ Install
    \/ LocateBinary
    \/ ProbeVersion
    \/ ProbeSsl
    \/ PrintResult
    \/ NextRun

Spec == Init /\ [][Next]_vars


----------------------------------------------------------------------------
(* _resolve_expected_sha256 over many metadata responses *)

DigestStrings ==
    {Sha256Prefix \o <<"a", "b">>,
     Sha256Prefix \o <<"A", "B">>,
     Sha256Prefix \o <<"c", "D">>,
     Sha256Prefix \o <<"a", ":", "B">>,
     Sha256Prefix,
     <<"s", "h", "a", "2", "5", "6">>,
     <<"S", "H", "A", "2", "5", "6", ":", "a", "b">>,
     <<"m", "d", "5", ":", "a", "b">>}

DigestValues == {NotStr} \cup {Str(d) : d \in DigestStrings}

Items == {NotDict} \cup
         {Dict(n, d) : n \in {AssetName, OtherName}, d \in DigestValues}

SeqsUpTo(S, n) == UNION {[1..k -> S] : k \in 0..n}

AllMetas == {NotObject, NoAssetsList} \cup
            {Release(items) : items \in SeqsUpTo(Items, MaxAssets)}

InitResolve ==
    /\ CiIdle
    /\ ReqIdle
    /\ platform = "linux"
    /\ remoteArchive = <<1, 5>>
    /\ remoteMeta \in AllMetas
    /\ probeExit = [p \in Probes |-> 0]
    /\ target = NoDir
    /\ staging = NoDir
    /\ archiveFile = NoFile
    /\ run = 1
    /\ prev = NoPrev
    /\ Locals0

NextResolve ==
    \/ ReadConfig
    \/ FetchMetadataOk
    \/ FetchMetadataFail

SpecResolve == InitResolve /\ [][NextResolve]_vars

----------------------------------------------------------------------------
(* The metadata request over the token variables of the environment *)

\* values of a token variable: unset, empty, blank, a token, a padded token
TokenValues ==
    {Unset, Val(<<>>), Val(<<" ">>), Val(<<"a">>), Val(<<" ", "b", " ">>)}

TokenEnvs ==
    [{"GITHUB_TOKEN", "GH_TOKEN", "ASTRBOT_GITHUB_TOKEN"} -> TokenValues]

InitRequest ==
    /\ CiIdle
    /\ tokenEnv \in TokenEnvs
    /\ request = NoRequest
    /\ platform = "linux"
    /\ remoteArchive = <<1, 5>>
    /\ remoteMeta \in MetasFor(remoteArchive)
    /\ probeExit = [p \in Probes |-> 0]
    /\ target = NoDir
    /\ staging = NoDir
    /\ archiveFile = NoFile
    /\ run = 1
    /\ prev = NoPrev
    /\ Locals0

NextRequest ==
    \/ ReadConfig
    \/ FetchMetadataOk
    \/ FetchMetadataFail

SpecRequest == InitRequest /\ [][NextRequest]_vars

----------------------------------------------------------------------------
(* _download_with_retries over budgets and failing transports *)

StaleFile == [exists |-> TRUE, bytes |-> <<5, 5>>]

InitDownload ==
    /\ CiIdle
    /\ ReqIdle
    /\ platform = "linux"
    /\ remoteArchive \in Archives
    /\ remoteMeta = NoAssetsList
    /\ probeExit = [p \in Probes |-> 0]
    /\ target = NoDir
    /\ staging = EmptyDir
    /\ archiveFile \in {NoFile, StaleFile}
    /\ run = 1
    /\ prev = NoPrev
    /\ pc = "download"
    /\ log = <<>>
    /\ attempt = 1
    /\ retries \in 0..MaxBudget
    /\ failFirst \in 0..MaxFail
    /\ metaOutcomes = <<>>
    /\ dlAttempts = 0
    /\ sleeps = <<>>
    /\ cause = 0
    /\ expected_sha256 = <<>>
    /\ actual_sha256 = <<>>
    /\ runtime_python = ""
    /\ error = ""
    /\ printed = <<>>

NextDownload ==
    \/ DownloadOk
    \/ DownloadFail
    \/ DownloadNoAttempt

SpecDownload == InitDownload /\ [][NextDownload]_vars


----------------------------------------------------------------------------
(* generate-updater-manifest.py: file names and extract_platform_info *)

\* File names are sequences of tokens; every literal of the three patterns
\* and of the four glob suffixes is a token or a run of tokens, and no
\* literal can arise across the boundary of two other tokens.

\* re.IGNORECASE and str.lower() on a token
LowerTok(t) ==
    CASE t = "AstrBot_" -> "astrbot_"
      [] t = "_Windows_" -> "_windows_"
      [] t = "_MacOS_" -> "_macos_"
      [] t = "X86_64" -> "x86_64"
      [] t = "Universal" -> "universal"
      [] OTHER -> t

\* the (regex, os_name) table of lines 72-79, in its order
Patterns ==
    <<[prefix |-> "astrbot_", os_tok |-> "_windows_",
       archs |-> {"x86_64", "aarch64", "armv7"},
       tail |-> <<"_updater", ".zip">>, os_name |-> "windows"],
      [prefix |-> "astrbot_", os_tok |-> "_linux_",
       archs |-> {"x86_64", "aarch64", "armv7"},
       tail |-> <<"_updater", ".tar.gz">>, os_name |-> "linux"],
      [prefix |-> "astrbot_", os_tok |-> "_macos_",
       archs |-> {"x86_64", "aarch64", "universal"},
       tail |-> <<"_updater", ".tar.gz">>, os_name |-> "darwin"]>>

\* positions of the os token of every way the pattern occurs in the name
MatchEnds(pat, name) ==
    {k \in 1..Len(name) :
        /\ \E i \in 1..(k - 1) : LowerTok(name[i]) = pat.prefix
        /\ LowerTok(name[k]) = pat.os_tok
        /\ k + 1 + Len(pat.tail) <= Len(name)
        /\ LowerTok(name[k + 1]) \in pat.archs
        /\ \A j \in 1..Len(pat.tail) : LowerTok(name[k + 1 + j]) = pat.tail[j]}

\* re.search(pattern, filename, re.IGNORECASE): 0 for no match, else the
\* position of the captured group (".*" is greedy: the last occurrence)
re_search(pat, name) ==
    LET ends == MatchEnds(pat, name)
    IN  IF ends = {} THEN 0
        ELSE 1 + CHOOSE k \in ends : \A j \in ends : j <= k

\* a variant that returns the group as it is written in the file name
group_as_written(name, g) == name[g]

\* match.group(1).lower()
group_lower(name, g) == LowerTok(name[g])

ArchMap == [a \in {"x86_64", "aarch64", "armv7", "universal"} |-> a]

\* arch_map.get(arch, arch)
arch_map_get(arch) == IF arch \in DOMAIN ArchMap THEN ArchMap[arch] ELSE arch

\* the loop of lines 81-95 from pattern p on
RECURSIVE MatchFrom(_, _)
MatchFrom(name, p) ==
    IF p > Len(Patterns) THEN NoInfo
    ELSE LET g == re_search(Patterns[p], name)
         IN  IF g # 0
             THEN [matched |-> TRUE, os |-> Patterns[p].os_name,
                   arch |-> arch_map_get(group_lower(name, g))]
             ELSE MatchFrom(name, p + 1)

extract_platform_info(name) == MatchFrom(name, 1)

\* file names handed to extract_platform_info
NameSlots ==
    [prefix : {<<"AstrBot_">>, <<"astrbot_">>, <<"random">>},
     ver : {<<"4.19.0">>, <<>>},
     os : {<<"_windows_">>, <<"_linux_">>, <<"_macos_">>, <<"_Windows_">>, <<>>},
     arch : {<<"x86_64">>, <<"aarch64">>, <<"armv7">>, <<"universal">>,
             <<"X86_64">>},
     upd : {<<"_updater">>, <<>>},
     ext : {<<".zip">>, <<".tar.gz">>, <<".bin">>},
     sig : {<<>>, <<".sig">>}]

ClassifyNames ==
    {n.prefix \o n.ver \o n.os \o n.arch \o n.upd \o n.ext \o n.sig :
        n \in NameSlots}
    \cup {<<"random", ".bin">>,
          <<"AstrBot_", "4.19.0", "_linux_", "x86_64", "_updater", ".tar.gz",
            "_windows_", "aarch64", "_updater", ".zip">>,
          <<"AstrBot_", "4.19.0", "_windows_", "x86_64", "_updater", ".zip",
            "_windows_", "armv7", "_updater", ".zip">>,
          <<"AstrBot_", "4.19.0", "_MacOS_", "Universal", "_updater",
            ".tar.gz">>}

\* the pipeline of resolve_packaged_cpython_runtime.py is not running
PipeIdle ==
    /\ platform = "linux"
    /\ remoteArchive = <<1, 5>>
    /\ remoteMeta = NoAssetsList
    /\ probeExit = [p \in Probes |-> 0]
    /\ target = NoDir
    /\ staging = NoDir
    /\ archiveFile = NoFile
    /\ run = 1
    /\ prev = NoPrev
    /\ pc = "idle"
    /\ log = <<>>
    /\ attempt = 0
    /\ retries = DefaultRetries
    /\ failFirst = 0
    /\ metaOutcomes = <<>>
    /\ dlAttempts = 0
    /\ sleeps = <<>>
    /\ cause = 0
    /\ expected_sha256 = <<>>
    /\ actual_sha256 = <<>>
    /\ runtime_python = ""
    /\ error = ""
    /\ printed = <<>>

InitClassify ==
    /\ PipeIdle
    /\ ReqIdle
    /\ script = "extract_platform_info"
    /\ args = NoArgs
    /\ tree = NoTree
    /\ cipc = "call"
    /\ artifacts = <<>>
    /\ manifest = NoManifest
    /\ outFile = NoManifest
    /\ exitCode = -1
    /\ stdout = <<>>
    /\ stderr = <<>>
    /\ filename \in ClassifyNames
    /\ info = NoInfo
    /\ pyproject = NoPyproject

\* lines 63-95: one call of extract_platform_info
Classify ==
    /\ cipc = "call"
    /\ info' = extract_platform_info(filename)
    /\ cipc' = "returned"
    /\ UNCHANGED <<pipeVars, script, args, tree, artifacts, manifest, outFile,
                   exitCode, stdout, stderr, filename, pyproject>>

SpecClassify == InitClassify /\ [][Classify]_vars

----------------------------------------------------------------------------
(* generate-updater-manifest.py: the artifact tree and the scan *)

MaxFiles == 3

BundleWin ==
    <<"AstrBot_", "4.19.0", "_windows_", "x86_64", "_updater", ".zip">>

BundleWinOld ==
    <<"AstrBot_", "1.0.0", "_windows_", "x86_64", "_updater", ".zip">>

BundleMac ==
    <<"AstrBot_", "4.19.0", "_macos_", "universal", "_updater", ".tar.gz">>

Unclassified == <<"foo", "_updater", ".zip">>

PlainZip == <<"A", ".zip">>

BundleNames == {BundleWin, BundleWinOld, BundleMac, Unclassified, PlainZip}

\* names of the regular files of a merged artifact tree
FileNames ==
    BundleNames \cup {n \o <<".sig">> : n \in BundleNames} \cup {<<"d1">>}

\* the job directories under the root
Dirs == {"d1", "d2"}

\* what a file of a job directory holds
Contents(d) ==
    IF d = "d1" THEN <<" ", "s", "1", "\n">> ELSE <<"s", "2">>

Paths == {[dir |-> d, name |-> n, text |-> Contents(d)] :
             d \in Dirs, n \in FileNames}

RECURSIVE SubsetsUpTo(_, _)
SubsetsUpTo(S, n) ==
    IF n = 0 THEN {{}}
    ELSE LET smaller == SubsetsUpTo(S, n - 1)
         IN  smaller \cup {s \cup {x} : s \in smaller, x \in S}

\* the path given as root: absent, a regular file, or a directory of files
Trees ==
    {NoTree, [kind |-> "file", files |-> {}]}
    \cup {[kind |-> "dir", files |-> F] : F \in SubsetsUpTo(Paths, MaxFiles)}

\* the four glob patterns of lines 101-106, "*" left out
GlobSuffixes ==
    << <<"_updater", ".zip">>, <<"_updater", ".zip", ".sig">>,
       <<"_updater", ".tar.gz">>, <<"_updater", ".tar.gz", ".sig">> >>

endswith(name, suf) ==
    /\ Len(name) >= Len(suf)
    /\ SubSeq(name, Len(name) - Len(suf) + 1, Len(name)) = suf

\* artifact_dir.glob("**/*" + suf): the matches, in no order yet
glob(root, suf) ==
    IF root.kind = "dir" THEN {f \in root.files : endswith(f.name, suf)}
    ELSE {}

\* the orders in which a directory walk can yield a set of paths
Orders(S) ==
    {s \in [1..Cardinality(S) -> S] :
        \A i, j \in 1..Cardinality(S) : i # j => s[i] # s[j]}

\* the lists find_updater_artifacts can return: the patterns in their order,
\* the matches of each in enumeration order
find_updater_artifacts(root) ==
    {a \o b \o c \o d :
        a \in Orders(glob(root, GlobSuffixes[1])),
        b \in Orders(glob(root, GlobSuffixes[2])),
        c \in Orders(glob(root, GlobSuffixes[3])),
        d \in Orders(glob(root, GlobSuffixes[4]))}

----------------------------------------------------------------------------
(* generate-updater-manifest.py: generate_manifest *)

\* a variant that takes no artifact for a signature file
suffix_never_sig(name) == FALSE

\* artifact.suffix == ".sig"
suffix_is_sig(name) == Len(name) > 0 /\ name[Len(name)] = ".sig"

\* f"{os_name}-{arch}"
platform_key(i) == <<i.os, "-", i.arch>>

dict_keys(d) == {d[i].key : i \in 1..Len(d)}

dict_get(d, k) == d[CHOOSE i \in 1..Len(d) : d[i].key = k].val

\* a variant that keeps the value a key already has
dict_setdefault(d, k, v) ==
    IF k \in dict_keys(d) THEN d ELSE Append(d, [key |-> k, val |-> v])

\* d[k] = v on an insertion-ordered dict
dict_set(d, k, v) ==
    IF k \in dict_keys(d)
    THEN [i \in 1..Len(d) |-> IF d[i].key = k THEN [key |-> k, val |-> v]
                              ELSE d[i]]
    ELSE Append(d, [key |-> k, val |-> v])

\* the loop of lines 139-155 from artifact i on; acc holds artifact_map and
\* the warnings printed so far
RECURSIVE GroupFrom(_, _, _)
GroupFrom(arts, i, acc) ==
    IF i > Len(arts) THEN acc
    ELSE IF suffix_is_sig(arts[i].name) THEN GroupFrom(arts, i + 1, acc)
    ELSE LET i_info == extract_platform_info(arts[i].name)
         IN  IF ~i_info.matched
             THEN GroupFrom(arts, i + 1,
                      [acc EXCEPT !.warnings =
                          Append(@, [msg |-> "no_platform_info",
                                     name |-> arts[i].name])])
             ELSE GroupFrom(arts, i + 1,
                      [acc EXCEPT !.map =
                          dict_set(@, platform_key(i_info), arts[i])])

\* a variant that returns the file's text untrimmed
read_text_untrimmed(files, d, name) ==
    LET hit == {f \in files : f.dir = d /\ f.name = name}
    IN  IF hit = {} THEN [found |-> FALSE, text |-> <<>>]
        ELSE [found |-> TRUE, text |-> (CHOOSE f \in hit : TRUE).text]

\* a variant that takes the signature file of that name from any directory
read_signature_anywhere(files, d, name) ==
    LET hit == {f \in files : f.name = name}
    IN  IF hit = {} THEN [found |-> FALSE, text |-> <<>>]
        ELSE [found |-> TRUE, text |-> strip((CHOOSE f \in hit : TRUE).text)]

\* a variant that reads a missing file as an empty one
read_missing_as_empty(files, d, name) ==
    LET hit == {f \in files : f.dir = d /\ f.name = name}
    IN  IF hit = {} THEN [found |-> TRUE, text |-> <<>>]
        ELSE [found |-> TRUE, text |-> strip((CHOOSE f \in hit : TRUE).text)]

\* read_signature_file: FileNotFoundError, or the stripped text
read_signature_file(files, d, name) ==
    LET hit == {f \in files : f.dir = d /\ f.name = name}
    IN  IF hit = {} THEN [found |-> FALSE, text |-> <<>>]
        ELSE [found |-> TRUE, text |-> strip((CHOOSE f \in hit : TRUE).text)]

base_url(repository, release_tag) ==
    <<"https://github.com/", repository, "/releases/download/", release_tag>>

download_url(repository, release_tag, name) ==
    base_url(repository, release_tag) \o <<"/">> \o name

\* the loop of lines 160-177 from entry i of artifact_map on; acc holds
\* manifest["platforms"] and the warnings printed so far
RECURSIVE BuildFrom(_, _, _, _, _, _)
BuildFrom(map, i, files, repository, release_tag, acc) ==
    IF i > Len(map) THEN acc
    ELSE LET bundle == map[i].val
             sig == read_signature_file(files, bundle.dir,
                                        bundle.name \o <<".sig">>)
         IN  IF ~sig.found
             THEN BuildFrom(map, i + 1, files, repository, release_tag,
                      [acc EXCEPT !.warnings =
                          Append(@, [msg |-> "no_signature",
                                     name |-> bundle.name])])
             ELSE BuildFrom(map, i + 1, files, repository, release_tag,
                      [acc EXCEPT !.platforms =
                          dict_set(@, map[i].key,
                              [signature |-> sig.text,
                               url |-> download_url(repository, release_tag,
                                                    bundle.name)])])

\* lines 121-179; files is the file system the signature files are read from
generate_manifest(arts, version, release_tag, repository, strict_version_match, files) ==
    LET grouped == GroupFrom(arts, 1, [map |-> <<>>, warnings |-> <<>>])
        built == BuildFrom(grouped.map, 1, files, repository, release_tag,
                     [platforms |-> <<>>, warnings |-> grouped.warnings])
    IN  [manifest |-> [built |-> TRUE, version |-> version,
                       notes |-> <<"Release ", release_tag>>,
                       platforms |-> built.platforms],
         warnings |-> built.warnings]

----------------------------------------------------------------------------
(* generate-updater-manifest.py: main *)

Versions == {"4.19.0", "1.0.0"}

\* command lines of the generator: rejected by argparse, or complete
ManifestArgs ==
    {[NoArgs EXCEPT !.argc = 1]}
    \cup {[argc |-> 11 + (IF st THEN 1 ELSE 0), ok |-> TRUE, version |-> v,
           release_tag |-> IF v = "1.0.0" THEN "v1.0.0" ELSE "v4.19.0",
           repository |-> "org/repo", strict_version_match |-> st] :
             v \in Versions, st \in BOOLEAN}

Line(msg, name) == [msg |-> msg, name |-> name]

\* a release script ended with the given status
Exit(code) ==
    /\ exitCode' = code
    /\ cipc' = "done"

\* line 183: argparse leaves with status 2 on a command line it rejects
ParseArgs ==
    /\ script = "manifest"
    /\ cipc = "start"
    /\ IF args.ok
       THEN /\ cipc' = "parsed"
            /\ UNCHANGED <<exitCode, stderr>>
       ELSE /\ stderr' = Append(stderr, Line("usage", <<>>))
            /\ Exit(2)
    /\ UNCHANGED <<pipeVars, script, args, tree, artifacts, manifest, outFile,
                   stdout, filename, info, pyproject>>

\* lines 185-188
RootMissing ==
    /\ script = "manifest"
    /\ cipc = "parsed"
    /\ tree.kind = "missing"
    /\ stderr' = Append(stderr, Line("root_missing", <<>>))
    /\ Exit(1)
    /\ UNCHANGED <<pipeVars, script, args, tree, artifacts, manifest, outFile,
                   stdout, filename, info, pyproject>>

\* line 191
FindArtifacts ==
    /\ script = "manifest"
    /\ cipc = "parsed"
    /\ tree.kind # "missing"
    /\ artifacts' \in find_updater_artifacts(tree)
    /\ cipc' = "found"
    /\ UNCHANGED <<pipeVars, script, args, tree, manifest, outFile, exitCode,
                   stdout, stderr, filename, info, pyproject>>

\* lines 193-201
NoArtifacts ==
    /\ script = "manifest"
    /\ cipc = "found"
    /\ artifacts = <<>>
    /\ stderr' = Append(stderr, Line("no_artifacts", <<>>))
    /\ manifest' = [built |-> TRUE, version |-> args.version,
                    notes |-> <<"Release ", args.release_tag>>,
                    platforms |-> <<>>]
    /\ cipc' = "built"
    /\ UNCHANGED <<pipeVars, script, args, tree, artifacts, outFile, exitCode,
                   stdout, filename, info, pyproject>>

\* lines 202-212
Generate ==
    /\ script = "manifest"
    /\ cipc = "found"
    /\ artifacts # <<>>
    /\ LET r == generate_manifest(artifacts, args.version, args.release_tag,
                                  args.repository, args.strict_version_match,
                                  tree.files)
       IN  /\ manifest' = r.manifest
           /\ stderr' = Append(stderr, Line("found", <<>>)) \o r.warnings
    /\ cipc' = "built"
    /\ UNCHANGED <<pipeVars, script, args, tree, artifacts, outFile, exitCode,
                   stdout, filename, info, pyproject>>

\* lines 214-224
WriteOutput ==
    /\ script = "manifest"
    /\ cipc = "built"
    /\ outFile' = manifest
    /\ stderr' = stderr \o <<Line("generated", <<>>), Line("platforms", <<>>)>>
    /\ Exit(0)
    /\ UNCHANGED <<pipeVars, script, args, tree, artifacts, manifest, stdout,
                   filename, info, pyproject>>

----------------------------------------------------------------------------
(* validate-release-artifacts.py *)

\* a variant that takes every path for a regular file
is_file_any(p) == TRUE

\* path.is_file()
is_file(p) == p.is_file

\* root.rglob("*"): the regular files and the directories that hold them
rglob(root) ==
    {[dir |-> f.dir, name |-> f.name, is_file |-> TRUE] : f \in root.files}
    \cup {[dir |-> ".", name |-> <<d>>, is_file |-> FALSE] :
             d \in {f.dir : f \in root.files}}

\* lines 23-26
by_name(root) ==
    LET kept == {p \in rglob(root) : is_file(p)}
    IN  [n \in {p.name : p \in kept} |-> {p \in kept : p.name = n}]

\* line 28
duplicates(by) == {n \in DOMAIN by : Cardinality(by[n]) > 1}

\* the file names in the order of Python's str comparison
NameOrder ==
    <<PlainZip, PlainZip \o <<".sig">>,
      BundleWinOld, BundleWinOld \o <<".sig">>,
      BundleMac, BundleMac \o <<".sig">>,
      BundleWin, BundleWin \o <<".sig">>,
      <<"d1">>, Unclassified, Unclassified \o <<".sig">> >>

NameRank(n) == CHOOSE i \in 1..Len(NameOrder) : NameOrder[i] = n

\* the order of pathlib paths under one root: a job directory itself, then
\* the files of d1, then those of d2
PathRank(p) == IF p.dir = "." THEN 0 ELSE IF p.dir = "d1" THEN 1 ELSE 2

\* sorted(duplicates.items())
sorted_names(S) ==
    CHOOSE s \in Orders(S) :
        \A i, j \in 1..Len(s) : i < j => NameRank(s[i]) < NameRank(s[j])

\* sorted(paths), for paths of one name
sorted_paths(S) ==
    CHOOSE s \in Orders(S) :
        \A i, j \in 1..Len(s) : i < j => PathRank(s[i]) < PathRank(s[j])

PathLine(p) == Line("path", <<p.dir, "/">> \o p.name)

\* lines 31-34 from name i on
RECURSIVE ReportFrom(_, _, _)
ReportFrom(names, i, by) ==
    IF i > Len(names) THEN <<>>
    ELSE LET ps == sorted_paths(by[names[i]])
         IN  <<Line("name", names[i])>>
             \o [k \in 1..Len(ps) |-> PathLine(ps[k])]
             \o ReportFrom(names, i + 1, by)

Result(code, out, err) == [code |-> code, out |-> out, err |-> err]

\* lines 10-38
validate_main(argc, root) ==
    IF argc # 2 THEN Result(2, <<>>, <<Line("usage", <<>>)>>)
    ELSE IF root.kind = "missing"
    THEN Result(1, <<>>, <<Line("not_found", <<>>)>>)
    ELSE IF root.kind # "dir"
    THEN Result(1, <<>>, <<Line("not_a_directory", <<>>)>>)
    ELSE LET by == by_name(root)
             dups == duplicates(by)
         IN  IF dups # {}
             THEN Result(1, <<>>,
                      <<Line("duplicates", <<>>)>>
                      \o ReportFrom(sorted_names(dups), 1, by))
             ELSE Result(0, <<Line("no_duplicates", <<>>)>>, <<>>)

ValidateMain ==
    /\ script = "guard"
    /\ cipc = "start"
    /\ LET r == validate_main(args.argc, tree)
       IN  /\ stdout' = stdout \o r.out
           /\ stderr' = stderr \o r.err
           /\ Exit(r.code)
    /\ UNCHANGED <<pipeVars, script, args, tree, artifacts, manifest, outFile,
                   filename, info, pyproject>>

----------------------------------------------------------------------------
(* read-project-version.py and read-requires-python.py *)

\* values of project.version and project.requires-python
TomlValues ==
    {NotStr, Str(<<" ", " ">>), Str(<<" ", "4", ".", "1", "9", "\n">>)}

Pyprojects ==
    [readable : BOOLEAN, parser : BOOLEAN, parses : BOOLEAN,
     version : TomlValues, requires : {NotStr, Str(<<">", "=", "3">>)}]

\* read-project-version.py, lines 23-54
read_project_version(argc, path, py) ==
    IF argc # 2 THEN Result(2, <<>>, <<Line("usage", <<>>)>>)
    ELSE IF path.kind # "file"
    THEN Result(2, <<>>, <<Line("file_not_found", <<>>)>>)
    ELSE IF ~py.readable THEN Result(1, <<>>, <<Line("read_failed", <<>>)>>)
    ELSE IF ~py.parser THEN Result(1, <<>>, <<Line("no_toml_parser", <<>>)>>)
    ELSE IF ~py.parses THEN Result(1, <<>>, <<Line("parse_failed", <<>>)>>)
    ELSE IF ~py.version.isStr \/ strip(py.version.s) = <<>>
    THEN Result(1, <<>>, <<Line("no_version", <<>>)>>)
    ELSE Result(0, <<Line("version", strip(py.version.s))>>, <<>>)

ReadProjectVersionMain ==
    /\ script = "version"
    /\ cipc = "start"
    /\ LET r == read_project_version(args.argc, tree, pyproject)
       IN  /\ stdout' = stdout \o r.out
           /\ stderr' = stderr \o r.err
           /\ Exit(r.code)
    /\ UNCHANGED <<pipeVars, script, args, tree, artifacts, manifest, outFile,
                   filename, info, pyproject>>

\* emit_result, lines 8-12
emit_result(requires_python, error_code) ==
    <<[requires_python |-> requires_python, error |-> error_code]>>

\* read-requires-python.py, lines 5-35: sys.argv[1] raises IndexError when
\* no argument is given, every later failure is reported with status 0
read_requires_python(argc, path, py) ==
    IF argc < 2 THEN Result(1, <<>>, <<Line("IndexError", <<>>)>>)
    ELSE IF ~py.parser
    THEN Result(0, emit_result(NotStr, "toml_parser_unavailable"), <<>>)
    ELSE IF path.kind # "file" \/ ~py.readable \/ ~py.parses
    THEN Result(0, emit_result(NotStr, "parse_failed"), <<>>)
    ELSE Result(0, emit_result(py.requires, "None"), <<>>)

ReadRequiresPythonMain ==
    /\ script = "requires"
    /\ cipc = "start"
    /\ LET r == read_requires_python(args.argc, tree, pyproject)
       IN  /\ stdout' = stdout \o r.out
           /\ stderr' = stderr \o r.err
           /\ Exit(r.code)
    /\ UNCHANGED <<pipeVars, script, args, tree, artifacts, manifest, outFile,
                   filename, info, pyproject>>

----------------------------------------------------------------------------
(* The release scripts, one process each *)

\* command lines of the scripts that take one path
PositionalArgs == {[NoArgs EXCEPT !.argc = n, !.ok = (n = 2)] : n \in 1..3}

InitCI ==
    /\ PipeIdle
    /\ ReqIdle
    /\ cipc = "start"
    /\ \/ /\ script = "manifest"
          /\ args \in ManifestArgs
          /\ tree \in Trees
          /\ pyproject = NoPyproject
       \/ /\ script = "guard"
          /\ args \in PositionalArgs
          /\ tree \in Trees
          /\ pyproject = NoPyproject
       \/ /\ script \in {"version", "requires"}
          /\ args \in PositionalArgs
          /\ tree \in {NoTree, [kind |-> "file", files |-> {}],
                       [kind |-> "dir", files |-> {}]}
          /\ pyproject \in Pyprojects
    /\ artifacts = <<>>
    /\ manifest = NoManifest
    /\ outFile = NoManifest
    /\ exitCode = -1
    /\ stdout = <<>>
    /\ stderr = <<>>
    /\ filename = <<>>
    /\ info = NoInfo

NextCI ==
    \/ ParseArgs
    \/ RootMissing
    \/ FindArtifacts
    \/ NoArtifacts
    \/ Generate
    \/ WriteOutput
    \/ ValidateMain
    \/ ReadProjectVersionMain
    \/ ReadRequiresPythonMain

SpecCI == InitCI /\ [][NextCI]_vars

----------------------------------------------------------------------------
(* Properties *)

InLog(stage) == \E i \in 1..Len(log) : log[i] = stage

Before(a, b) ==
    \A j \in 1..Len(log) : log[j] = b => \E i \in 1..(j - 1) : log[i] = a

Min(a, b) == IF a <= b THEN a ELSE b

LaterStages ==
    {"extract", "layout", "install", "locate", "probe_version", "probe_ssl",
     "print"}

\* descriptors of the served metadata whose name is the requested asset
Matching ==
    {i \in 1..Len(remoteMeta.items) :
        remoteMeta.items[i].isDict /\ remoteMeta.items[i].name = AssetName}

FirstMatching == CHOOSE i \in Matching : \A j \in Matching : i <= j

\* the digest string of the first matching descriptor, as published
PublishedDigest == remoteMeta.items[FirstMatching].digest

HasSha256Prefix(d) ==
    /\ d.isStr
    /\ Len(d.s) >= 7
    /\ \A i \in 1..7 : d.s[i] = Sha256Prefix[i]

\* the hex part of the published digest, in the case it was published in
PublishedHex == SubSeq(PublishedDigest.s, 8, Len(PublishedDigest.s))

SameIgnoringCase(a, b) ==
    /\ Len(a) = Len(b)
    /\ \A i \in 1..Len(a) : LowerChar(a[i]) = LowerChar(b[i])

\* C1: extraction, layout validation, the copy into the target and the
\* probes are reached only when the sha256 recomputed from the downloaded
\* file equals the digest resolved from the release metadata; a mismatch
\* ends the run with the mismatch error and none of these stages runs.
C1_VerificationGate ==
    /\ (\E st \in LaterStages : InLog(st)) =>
          /\ InLog("verify")
          /\ Before("verify", "extract")
          /\ actual_sha256 = Sha256Hex(archiveFile.bytes)
          /\ actual_sha256 = expected_sha256
          /\ SameIgnoringCase(expected_sha256, PublishedHex)
    /\ (InLog("verify") /\ actual_sha256 # expected_sha256) =>
          /\ pc = "failed"
          /\ error = E_Mismatch
          /\ \A st \in LaterStages : ~InLog(st)
          /\ printed = <<>>

\* C1 witness: a run whose download did not match was stopped at verification
C1_MismatchAborted ==
    /\ pc = "failed"
    /\ error = E_Mismatch
    /\ log[Len(log)] = "verify"
    /\ archiveFile.bytes = remoteArchive

\* C2: the target install directory is always absent or a complete runtime
\* that passes both probes.
C2_TargetAbsentOrProbePassing ==
    target.exists =>
        /\ target.files =
              {Member(remoteArchive[i]).rel :
                  i \in {k \in 1..Len(remoteArchive) :
                            remoteArchive[k] # 0
                            /\ Member(remoteArchive[k]).top = "python"}}
        /\ \E c \in target.files :
              c \in {"bin/python3", "bin/python", "python.exe",
                     "Scripts/python.exe"}
        /\ \A p \in Probes : probeExit[p] = 0

\* C3: the target install directory changes only in the installer step that
\* follows download, verification, extraction and layout validation.
C3_TargetChangesOnlyInInstaller ==
    [][target' # target => pc = "copy"]_vars

\* C4: the verifier accepts the downloaded payload exactly when its sha256
\* equals the published hex digest, letter case ignored; when they differ the
\* run fails with the mismatch error and goes no further.
C4_AcceptsIffDigestsEqualIgnoringCase ==
    InLog("verify") =>
        /\ (error # E_Mismatch) <=>
              SameIgnoringCase(PublishedHex, Sha256Hex(archiveFile.bytes))
        /\ (error # E_Mismatch) => pc # "verify"
        /\ (error = E_Mismatch) => (pc = "failed" /\ ~InLog("extract"))

\* C4 witness: a digest published in upper-case hex was accepted
C4_UpperCaseAccepted ==
    /\ InLog("extract")
    /\ PublishedHex # lower(PublishedHex)
    /\ PublishedHex = upper(Sha256Hex(archiveFile.bytes))

DownloadReturned == pc = "verify"
DownloadRaised == pc = "failed" /\ error = E_Download

\* C5: with budget b >= 1 and a transport failing on its first f attempts,
\* _download_with_retries makes min(f + 1, b) attempts and never more than b;
\* if f < b it returns and the file holds exactly the served payload; if
\* f >= b it raises the download error chained to the error of attempt b.
C5_DownloadAttempts ==
    retries >= 1 =>
        /\ dlAttempts <= retries
        /\ (DownloadReturned \/ DownloadRaised) =>
              /\ dlAttempts = Min(failFirst + 1, retries)
              /\ failFirst < retries =>
                    /\ DownloadReturned
                    /\ archiveFile = [exists |-> TRUE, bytes |-> remoteArchive]
              /\ failFirst >= retries =>
                    /\ DownloadRaised
                    /\ cause = retries

\* C5 witness: two failed attempts, then a third that succeeds with budget 3
C5_ThirdAttemptSucceeds ==
    /\ DownloadReturned
    /\ retries = 3
    /\ failFirst = 2
    /\ dlAttempts = 3
    /\ Len(remoteArchive) = 2
    /\ archiveFile.bytes = remoteArchive

\* C6: a digest mismatch or malformed metadata, an unparseable response body
\* included, is fatal at its first occurrence: no further metadata request
\* and no further download follow it.
C6_IntegrityFailuresNeverRetried ==
    /\ \A i \in 1..Len(metaOutcomes) :
          metaOutcomes[i] = "unparseable" =>
              (i = 1 /\ Len(metaOutcomes) = 1 /\ pc = "failed")
    /\ error \in {E_NoAssets, E_NotFound, E_NoDigest} =>
          (pc = "failed" /\ log[Len(log)] = "resolve")
    /\ error = E_Mismatch => (pc = "failed" /\ log[Len(log)] = "verify")

TopLevel(dir) == {m.top : m \in dir.files}

\* C8: the extraction is accepted only when it produced the python directory
\* as its single top-level entry; any other layout raises the layout error and
\* nothing is installed.
C8_SingleTopLevelEntry ==
    InLog("layout") =>
        IF TopLevel(staging) = {"python"}
        THEN error # E_Layout
        ELSE pc = "failed" /\ error = E_Layout /\ ~target.exists

ClaimedCandidates ==
    IF platform = "win32" THEN <<"python.exe", "Scripts/python.exe">>
    ELSE <<"bin/python3", "bin/python">>

ExistingCandidates ==
    {i \in 1..Len(ClaimedCandidates) :
        target.exists /\ ClaimedCandidates[i] \in target.files}

\* C9: the probe step picks the first existing candidate of the platform's
\* ordered list and fails with the binary-not-found error when there is none;
\* it runs the version probe and then the TLS import probe, a non-zero exit
\* of either raises its probe error, and the TLS probe is not run after a
\* failed version probe.
C9_ProbeSelectionAndOrder ==
    /\ InLog("locate") =>
          IF ExistingCandidates = {}
          THEN /\ pc = "failed"
               /\ error = E_NoBinary
               /\ ~InLog("probe_version")
               /\ ~InLog("probe_ssl")
          ELSE /\ runtime_python =
                    ClaimedCandidates[CHOOSE i \in ExistingCandidates :
                                         \A j \in ExistingCandidates : i <= j]
               /\ error # E_NoBinary
    /\ InLog("probe_version") => Before("locate", "probe_version")
    /\ InLog("probe_ssl") =>
          (Before("probe_version", "probe_ssl") /\ probeExit["version"] = 0)
    /\ (InLog("probe_version") /\ probeExit["version"] # 0) =>
          (pc = "failed" /\ error = E_ProbeVersion /\ ~InLog("probe_ssl"))
    /\ (InLog("probe_ssl") /\ probeExit["ssl"] # 0) =>
          (pc = "failed" /\ error = E_ProbeSsl /\ ~InLog("print"))
    /\ InLog("print") => (InLog("probe_version") /\ InLog("probe_ssl"))

\* C9 witness: both candidates exist, the first was run, and the TLS probe
\* failed after a passing version probe
C9_FirstOfTwoCandidates ==
    /\ Cardinality(ExistingCandidates) = 2
    /\ runtime_python = ClaimedCandidates[1]
    /\ error = E_ProbeSsl
    /\ log[Len(log)] = "probe_ssl"

\* failures of the environment of a run, not of the remote state
EnvironmentFailure ==
    error \in {E_RunnerTemp, E_MissingEnv, E_MetaFetch, E_Download}

\* C10: a run that follows a successful run, with the remote state unchanged
\* and no failure of its environment, succeeds and leaves the same installed
\* runtime as the run before it.
C10_SecondRunSameRuntime ==
    (Terminated /\ prev.outcome = "done" /\ ~EnvironmentFailure) =>
        /\ pc = "done"
        /\ target = prev.target

\* C10 witness: a second successful run that had to retry its download over
\* the file, staging and target left by the first
C10_SecondRunDone ==
    /\ run = 2
    /\ pc = "done"
    /\ prev.outcome = "done"
    /\ dlAttempts = 3
    /\ target.exists
    /\ target = prev.target


\* the patterns of the ordered table that occur in the file name
MatchingPatterns == {p \in 1..Len(Patterns) : MatchEnds(Patterns[p], filename) # {}}

FirstPattern == CHOOSE p \in MatchingPatterns : \A q \in MatchingPatterns : p <= q

LowerCaseArchs == {"x86_64", "aarch64", "armv7", "universal"}

\* C14: extract_platform_info returns the os of the first pattern of the
\* ordered table (windows, linux, macos as darwin) that matches the file name
\* and the captured architecture in lowercase, and nothing when no pattern
\* matches; the Windows zip example gives windows/x86_64, the macOS universal
\* tar.gz example darwin/universal, random.bin is unclassified.
C14_ClassifierFirstPattern ==
    cipc = "returned" =>
        /\ info.matched <=> MatchingPatterns # {}
        /\ info.matched =>
              /\ info.os = <<"windows", "linux", "darwin">>[FirstPattern]
              /\ info.arch \in LowerCaseArchs
              /\ \E k \in MatchEnds(Patterns[FirstPattern], filename) :
                    LowerTok(filename[k + 1]) = info.arch
        /\ ~info.matched => info = NoInfo
        /\ filename = <<"AstrBot_", "4.19.0", "_windows_", "x86_64",
                        "_updater", ".zip">> =>
              info = [matched |-> TRUE, os |-> "windows", arch |-> "x86_64"]
        /\ filename = <<"AstrBot_", "4.19.0", "_macos_", "universal",
                        "_updater", ".tar.gz">> =>
              info = [matched |-> TRUE, os |-> "darwin", arch |-> "universal"]
        /\ filename = <<"random", ".bin">> => ~info.matched

\* C14 witness: a name in which the linux and the windows pattern both occur
\* was classified by the first of them
C14_TwoPatternsMatch ==
    /\ cipc = "returned"
    /\ Cardinality(MatchingPatterns) = 2
    /\ info.os = "windows"

----------------------------------------------------------------------------
(* Properties of the manifest generator *)

PlatformKeys ==
    {<<o, "-", a>> : o \in {"windows", "linux", "darwin"}, a \in LowerCaseArchs}

\* indices of the scanned artifacts that are bundles, not signature files
BundleIndices ==
    {i \in 1..Len(artifacts) :
        artifacts[i].name[Len(artifacts[i].name)] # ".sig"}

Classified(b) == extract_platform_info(b.name).matched

KeyOf(b) == platform_key(extract_platform_info(b.name))

\* indices of the scanned bundles that classify to key k
IndicesOfKey(k) ==
    {i \in BundleIndices : Classified(artifacts[i]) /\ KeyOf(artifacts[i]) = k}

\* the last scanned bundle of key k
LastOfKey(k) ==
    artifacts[CHOOSE i \in IndicesOfKey(k) : \A j \in IndicesOfKey(k) : j <= i]

SignatureFiles(b) ==
    {s \in tree.files : s.dir = b.dir /\ s.name = b.name \o <<".sig">>}

HasSignature(b) == SignatureFiles(b) # {}

TrimmedSignature(b) == strip((CHOOSE s \in SignatureFiles(b) : TRUE).text)

UrlOf(b) ==
    <<"https://github.com/", args.repository, "/releases/download/",
      args.release_tag, "/">> \o b.name

\* C11: every key of the platforms map has the form os-arch and occurs once,
\* its entry carries the url and the non-empty trimmed signature of one
\* scanned, classified bundle whose "<name>.sig" exists beside it, and a key
\* none of whose bundles has a signature file has no entry.
C11_PlatformEntries ==
    manifest.built =>
        LET P == manifest.platforms
        IN  /\ \A i \in 1..Len(P) :
                  /\ P[i].key \in PlatformKeys
                  /\ \A j \in 1..Len(P) : j # i => P[j].key # P[i].key
                  /\ P[i].val.signature # <<>>
                  /\ \E n \in IndicesOfKey(P[i].key) :
                        /\ HasSignature(artifacts[n])
                        /\ P[i].val.url = UrlOf(artifacts[n])
                        /\ P[i].val.signature = TrimmedSignature(artifacts[n])
            /\ \A k \in PlatformKeys :
                  (\A n \in IndicesOfKey(k) : ~HasSignature(artifacts[n]))
                      => k \notin dict_keys(P)

\* C11 witness: a written manifest with one entry, built from a tree that
\* also holds a classified bundle of another key without a signature file
C11_SignedAndUnsignedBundle ==
    /\ cipc = "done"
    /\ Len(outFile.platforms) = 1
    /\ \E n \in BundleIndices :
          /\ Classified(artifacts[n])
          /\ ~HasSignature(artifacts[n])
          /\ KeyOf(artifacts[n]) \notin dict_keys(outFile.platforms)

\* the tree that holds exactly the bundle called name and its signature file,
\* both in directory d
BundleAndSignature(d, name) ==
    [kind |-> "dir",
     files |-> {[dir |-> d, name |-> name, text |-> Contents(d)],
                [dir |-> d, name |-> name \o <<".sig">>,
                 text |-> Contents(d)]}]

\* C12 as stated: the artifacts {A.zip, A.zip.sig} for release v1.0.0,
\* version 1.0.0, repository org/repo give exactly one platform entry, with
\* url https://github.com/org/repo/releases/download/v1.0.0/A.zip and the
\* trimmed contents of A.zip.sig as signature.
C12_PlainZipGivesOneEntry ==
    \A d \in Dirs :
        (/\ manifest.built
         /\ tree = BundleAndSignature(d, PlainZip)
         /\ args.version = "1.0.0")
        => /\ Len(manifest.platforms) = 1
           /\ manifest.platforms[1].val.url =
                 <<"https://github.com/", "org/repo", "/releases/download/",
                   "v1.0.0", "/", "A", ".zip">>
           /\ manifest.platforms[1].val.signature = strip(Contents(d))

\* C12 amended: the artifacts {AstrBot_1.0.0_windows_x86_64_updater.zip and
\* its .sig} for release v1.0.0, version 1.0.0, repository org/repo give
\* exactly one platform entry, keyed windows-x86_64, with url
\* https://github.com/org/repo/releases/download/v1.0.0/<bundle name> and the
\* trimmed contents of the .sig file as signature; {A.zip, A.zip.sig} give
\* an empty platforms map.
C12_NamedBundleGivesOneEntry ==
    \A d \in Dirs :
        /\ (/\ manifest.built
            /\ tree = BundleAndSignature(d, BundleWinOld)
            /\ args.version = "1.0.0")
           => /\ Len(manifest.platforms) = 1
              /\ manifest.platforms[1].key = <<"windows", "-", "x86_64">>
              /\ manifest.platforms[1].val.url =
                    <<"https://github.com/", "org/repo",
                      "/releases/download/", "v1.0.0", "/">> \o BundleWinOld
              /\ manifest.platforms[1].val.signature =
                    (IF d = "d1" THEN <<"s", "1">> ELSE <<"s", "2">>)
        /\ (/\ manifest.built
            /\ tree = BundleAndSignature(d, PlainZip))
           => manifest.platforms = <<>>

\* C12 witness: the manifest of the named bundle and its signature file, the
\* signature text padded with white space, has been written
C12_NamedBundleWritten ==
    /\ cipc = "done"
    /\ tree = BundleAndSignature("d1", BundleWinOld)
    /\ args.version = "1.0.0"
    /\ Len(outFile.platforms) = 1

\* the glob pattern that yields an artifact
PatternIndex(a) ==
    CHOOSE p \in 1..Len(GlobSuffixes) :
        /\ endswith(a.name, GlobSuffixes[p])
        /\ \A q \in 1..Len(GlobSuffixes) :
              endswith(a.name, GlobSuffixes[q])
                  => Len(GlobSuffixes[q]) <= Len(GlobSuffixes[p])

Warnings ==
    {stderr[i] : i \in
        {j \in 1..Len(stderr) :
            stderr[j].msg \in {"no_platform_info", "no_signature"}}}

\* C13: the scanned list runs through the suffix patterns in their order; of
\* the bundles that classify to one key the last in the list alone decides
\* the entry (its url and signature, or no entry when it has no signature
\* file), and the overwritten ones leave no trace: every warning names an
\* unclassified artifact or a last bundle without signature.
C13_LaterBundleWins ==
    manifest.built =>
        LET P == manifest.platforms
        IN  /\ \A i, j \in 1..Len(artifacts) :
                  i < j => PatternIndex(artifacts[i]) <= PatternIndex(artifacts[j])
            /\ \A k \in PlatformKeys :
                  IndicesOfKey(k) # {} =>
                      IF HasSignature(LastOfKey(k))
                      THEN /\ k \in dict_keys(P)
                           /\ dict_get(P, k).url = UrlOf(LastOfKey(k))
                           /\ dict_get(P, k).signature =
                                 TrimmedSignature(LastOfKey(k))
                      ELSE k \notin dict_keys(P)
            /\ \A w \in Warnings :
                  \/ /\ w.msg = "no_platform_info"
                     /\ \E n \in BundleIndices :
                           /\ artifacts[n].name = w.name
                           /\ ~Classified(artifacts[n])
                  \/ /\ w.msg = "no_signature"
                     /\ \E k \in PlatformKeys :
                           /\ IndicesOfKey(k) # {}
                           /\ LastOfKey(k).name = w.name
                           /\ ~HasSignature(LastOfKey(k))

\* C13 witness: two bundles of different names classify to windows-x86_64,
\* the entry written is the later one's and nothing was warned about
C13_TwoBundlesOneKey ==
    /\ cipc = "done"
    /\ exitCode = 0
    /\ Warnings = {}
    /\ \E i, j \in IndicesOfKey(<<"windows", "-", "x86_64">>) :
          /\ i < j
          /\ artifacts[i].name # artifacts[j].name
          /\ dict_keys(outFile.platforms) = {<<"windows", "-", "x86_64">>}
          /\ outFile.platforms[1].val.url = UrlOf(artifacts[j])

----------------------------------------------------------------------------
(* Properties of the duplicate guard *)

\* the base names that two or more regular files under the root carry
SharedNames ==
    {n \in {f.name : f \in tree.files} :
        Cardinality({f \in tree.files : f.name = n}) >= 2}

Printed(line) == \E i \in 1..Len(stderr) : stderr[i] = line

\* C15: run on an existing directory, validate-release-artifacts exits
\* non-zero exactly when some base name is carried by two or more regular
\* files under the root; it then prints the path of every file of every such
\* name, and with all base names unique it exits 0.
C15_DuplicateGuard ==
    (script = "guard" /\ cipc = "done" /\ args.argc = 2 /\ tree.kind = "dir")
    => /\ exitCode # 0 <=> SharedNames # {}
       /\ SharedNames = {} => exitCode = 0
       /\ \A f \in tree.files :
             f.name \in SharedNames =>
                 Printed(Line("path", <<f.dir, "/">> \o f.name))

\* C15 witness: the guard has rejected a tree in which two job directories
\* hold a file of the same name
C15_DuplicateReported ==
    /\ script = "guard"
    /\ cipc = "done"
    /\ exitCode = 1
    /\ SharedNames = {BundleWin}
    /\ Len(stderr) = 4

\* the keys whose last scanned bundle has its signature file
SignedKeys ==
    {k \in PlatformKeys : IndicesOfKey(k) # {} /\ HasSignature(LastOfKey(k))}

\* C16: on every artifact root that exists the generator never exits
\* non-zero; it ends with status 0 having written the manifest it built,
\* whose keys are those whose deciding bundle has a signature file (none
\* when nothing was found), every unclassifiable bundle and every deciding
\* bundle without signature file having been warned about.
C16_WarningsNeverFail ==
    (script = "manifest" /\ args.ok /\ tree.kind # "missing")
    => /\ exitCode \in {-1, 0}
       /\ cipc = "done" =>
             /\ exitCode = 0
             /\ outFile.built
             /\ outFile = manifest
             /\ outFile.version = args.version
             /\ dict_keys(outFile.platforms) = SignedKeys
             /\ artifacts = <<>> =>
                   Printed(Line("no_artifacts", <<>>))
             /\ \A n \in BundleIndices :
                   ~Classified(artifacts[n]) =>
                       Printed(Line("no_platform_info", artifacts[n].name))
             /\ \A k \in PlatformKeys :
                   (IndicesOfKey(k) # {} /\ ~HasSignature(LastOfKey(k))) =>
                       Printed(Line("no_signature", LastOfKey(k).name))

\* C16 witness: a manifest was written with status 0 after one bundle had
\* been dropped as unclassifiable and another for its missing signature
C16_BothWarningsThenWritten ==
    /\ script = "manifest"
    /\ cipc = "done"
    /\ exitCode = 0
    /\ outFile.built
    /\ \E i, j \in 1..Len(stderr) :
          /\ stderr[i].msg = "no_platform_info"
          /\ stderr[j].msg = "no_signature"

----------------------------------------------------------------------------
(* Exit statuses of the release scripts *)

\* the command line is one the script cannot use
UsageError ==
    CASE script = "manifest" -> ~args.ok
      [] script = "requires" -> args.argc < 2
      [] OTHER -> args.argc # 2

\* the path argument names nothing
MissingInput == ~UsageError /\ tree.kind = "missing"

\* the run cannot do its work although the command line is usable
OperationalFailure ==
    /\ ~UsageError
    /\ CASE script = "manifest" -> tree.kind = "missing"
         [] script = "guard" -> tree.kind # "dir" \/ SharedNames # {}
         [] script = "version" ->
                \/ tree.kind # "file"
                \/ ~pyproject.readable
                \/ ~pyproject.parser
                \/ ~pyproject.parses
                \/ ~pyproject.version.isStr
                \/ strip(pyproject.version.s) = <<>>
         [] script = "requires" ->
                \/ tree.kind # "file"
                \/ ~pyproject.readable
                \/ ~pyproject.parser
                \/ ~pyproject.parses
         [] OTHER -> FALSE

\* C17 as stated: every script ends with status 0 on success, 1 on an
\* operational failure and 2 exactly on a usage error; a missing input file
\* or directory gives 1 and no operational failure gives 0.
C17_ExitCodes ==
    (cipc = "done" /\ script \in {"manifest", "guard", "version", "requires"})
    => /\ exitCode \in {0, 1, 2}
       /\ exitCode = 2 <=> UsageError
       /\ exitCode = 1 <=> OperationalFailure
       /\ MissingInput => exitCode = 1

\* the version a bundle's file name carries
EmbeddedVersion(b) == b.name[2]

\* a scanned, classified bundle carries another version than --version
VersionMismatch ==
    \E n \in BundleIndices :
        /\ Classified(artifacts[n])
        /\ EmbeddedVersion(artifacts[n]) # args.version

\* C18 as stated: with --strict-version-match the generator fails when a
\* scanned artifact's file name carries a version other than --version;
\* without the flag the mismatch is tolerated.
C18_StrictVersionMatch ==
    (script = "manifest" /\ cipc = "done" /\ args.ok /\ tree.kind # "missing")
    => /\ (args.strict_version_match /\ VersionMismatch) => exitCode # 0
       /\ ~args.strict_version_match => exitCode = 0

----------------------------------------------------------------------------
(* Backoff of the retry loops and the staging directory *)

\* the sleeps of a loop whose failed attempts 1..n were each followed by
\* another attempt
LinearSleeps(n) == [k \in 1..n |-> k * 2]

\* failed metadata attempts that were followed by another attempt
MetadataRetried ==
    IF error = E_MetaFetch THEN Len(metaOutcomes) - 1 ELSE Len(metaOutcomes)

\* failed download attempts that were followed by another attempt
DownloadRetried ==
    IF InLog("download") \/ error = E_Download THEN dlAttempts - 1
    ELSE dlAttempts

\* C19: in both retry loops (budget 3) the failed attempt k below the budget
\* is followed by a sleep of k x 2 seconds and nothing else is: no sleep
\* follows a success or the last failed attempt, so a loop that exhausts its
\* budget has slept 2 then 4 seconds when it raises.
C19_LinearBackoff ==
    /\ sleeps = LinearSleeps(MetadataRetried) \o LinearSleeps(DownloadRetried)
    /\ error = E_MetaFetch => sleeps = <<2, 4>>
    /\ error = E_Download =>
          /\ dlAttempts = DefaultRetries
          /\ SubSeq(sleeps, Len(sleeps) - 1, Len(sleeps)) = <<2, 4>>

\* C19 witness: the download loop exhausted its budget after the metadata
\* loop had needed two attempts
C19_BothLoopsSlept ==
    /\ pc = "failed"
    /\ error = E_Download
    /\ sleeps = <<2, 2, 4>>

\* C20: from its creation to the extraction the staging directory exists and
\* is empty, whatever an earlier run left at its path: neither the download
\* nor the digest computation writes into it.
C20_StagingEmptyAtExtraction ==
    pc \in {"download", "verify", "extract"} => staging = EmptyDir

\* C20 witness: a second run is about to extract, the first having left its
\* extracted tree in the staging directory
C20_SecondRunExtracts ==
    /\ run = 2
    /\ pc = "extract"
    /\ prev.outcome = "done"

----------------------------------------------------------------------------
(* The bearer token of the metadata request *)

NonBlank(v) == v.set /\ strip(v.val) # <<>>

\* positions in the priority order of the token variables with a non-blank
\* value
NonBlankTokens == {i \in 1..Len(TokenNames) : NonBlank(tokenEnv[TokenNames[i]])}

AuthorizationHeaders ==
    {request.headers[i].val : i \in
        {j \in 1..Len(request.headers) :
            request.headers[j].key = "Authorization"}}

\* C21 as stated: the request carries an Authorization header exactly when
\* one of GITHUB_TOKEN, GH_TOKEN, ASTRBOT_GITHUB_TOKEN holds a non-blank
\* value, and the header then is "Bearer " followed by the trimmed value of
\* the first such variable in that order.
C21_TokenPrecedence ==
    request.built =>
        IF NonBlankTokens = {} THEN AuthorizationHeaders = {}
        ELSE LET first ==
                     CHOOSE i \in NonBlankTokens :
                         \A j \in NonBlankTokens : i <= j
             IN  AuthorizationHeaders =
                     {<<"Bearer ">> \o strip(tokenEnv[TokenNames[first]].val)}

----------------------------------------------------------------------------
(* Failures before the digest is resolved *)

\* messages of the failures of configuration reading and digest resolution
EarlyFailures ==
    {E_RunnerTemp, E_MissingEnv, E_MetaFetch, E_Attribute, E_NoAssets,
     E_NotFound, E_NoDigest}

\* C22: a run that failed while reading its configuration or resolving the
\* trusted digest has left the target directory, the staging directory and
\* the download file exactly as the previous run (or the initial runner
\* directory) had left them.
C22_EarlyFailureLeavesFiles ==
    (pc = "failed" /\ error \in EarlyFailures)
    => /\ target = prev.target
       /\ staging = prev.staging
       /\ archiveFile = prev.archiveFile

\* C22 witness: after a run that installed a runtime, a second run failed
\* while fetching the metadata; target, staging and archive are still there
C22_SecondRunFailsEarly ==
    /\ run = 2
    /\ prev.outcome = "done"
    /\ pc = "failed"
    /\ error = E_MetaFetch
    /\ target.exists
    /\ staging.exists
    /\ archiveFile.exists

----------------------------------------------------------------------------
(* The printed result *)

\* the stages of a run that reached the end of main, in their order
FullRun ==
    <<"config", "resolve", "clean", "download", "verify", "extract",
      "layout", "install", "locate", "probe_version", "probe_ssl", "print">>

ResultLines == <<"ASTRBOT_DESKTOP_CPYTHON_HOME", "ASTRBOT_DESKTOP_CPYTHON_ASSET">>

\* C23: the two result lines are printed together or not at all, never by a
\* run that failed, and only by a run that went through every stage in
\* order: digest resolved, archive downloaded, digest matched, python/ found
\* in the extraction, copy into the target made, a candidate binary located
\* in the target, and both probes exited 0.
C23_PrintsOnlyAfterFullRun ==
    /\ printed \in {<<>>, ResultLines}
    /\ pc = "failed" => printed = <<>>
    /\ printed # <<>> =>
          /\ pc = "done"
          /\ log = FullRun
          /\ expected_sha256 # <<>>
          /\ archiveFile.exists
          /\ archiveFile.bytes = remoteArchive
          /\ actual_sha256 = expected_sha256
          /\ "python" \in TopLevel(staging)
          /\ target.exists
          /\ target.files = {m.rel : m \in {x \in staging.files : x.top = "python"}}
          /\ runtime_python \in target.files
          /\ \E i \in 1..Len(ClaimedCandidates) :
                ClaimedCandidates[i] = runtime_python
          /\ probeExit["version"] = 0
          /\ probeExit["ssl"] = 0

\* C23 witness: a first run printed its result after the download had needed
\* a second attempt
C23_PrintedAfterRetry ==
    /\ run = 1
    /\ pc = "done"
    /\ printed = ResultLines
    /\ dlAttempts = 2

----------------------------------------------------------------------------
(* No fallback to an earlier bundle of a key *)

\* key k has a last scanned bundle without signature file and an earlier
\* scanned bundle with one
SignedThenUnsigned(k) ==
    /\ IndicesOfKey(k) # {}
    /\ ~HasSignature(LastOfKey(k))
    /\ \E i \in IndicesOfKey(k) :
          /\ artifacts[i] # LastOfKey(k)
          /\ HasSignature(artifacts[i])

\* C24: when the last scanned bundle of a key has no signature file the
\* manifest has no entry for the key, also when an earlier scanned bundle of
\* the same key has its signature file; the one warning about the key names
\* the last bundle.
C24_NoFallbackToEarlierBundle ==
    manifest.built =>
        \A k \in PlatformKeys :
            SignedThenUnsigned(k) =>
                /\ k \notin dict_keys(manifest.platforms)
                /\ Printed(Line("no_signature", LastOfKey(k).name))
                /\ \A i \in 1..Len(manifest.platforms) :
                      \A n \in IndicesOfKey(k) :
                          manifest.platforms[i].val.url # UrlOf(artifacts[n])

\* C24 witness: a manifest without platforms was written from a signed
\* bundle followed in scan order by an unsigned bundle of the same key
C24_SignedBundleOverwritten ==
    /\ cipc = "done"
    /\ exitCode = 0
    /\ SignedThenUnsigned(<<"windows", "-", "x86_64">>)
    /\ outFile.built
    /\ outFile.platforms = <<>>

====
